---- MODULE Spec2Model ----
(***************************************************************************)
(* A model of the Router of src/src/web-router.ts: the pattern table, the  *)
(* navigate and popstate listeners it registers, the navigation-handling   *)
(* sequence (plugins, title, transition, commit) with its suspension       *)
(* points, and the init() and navigate() calls that await it.              *)
(*                                                                         *)
(* A pathname is the sequence of its "/"-separated segments after the      *)
(* leading slash: "/" is <<"">>, "/user/7" is <<"user", "7">>, "/user/" is *)
(* <<"user", "">>.  A Route object is named by a string (its reference);   *)
(* "null" stands for null.  A URL string is the sequence of its tokens: an *)
(* origin ("https://app.example"), a scheme with no host after it          *)
(* ("https://"), the separator "/", and path segments.                     *)
(***************************************************************************)
EXTENDS Naturals, Sequences, FiniteSets

\* Bounds of the model.
MaxSeqs == 2        \* navigation-handling sequences started in one behaviour
MaxInitCalls == 2   \* init() calls in one behaviour
MaxRouters == 2     \* Routers constructed in one behaviour

NULL == "null"

\* ------------------------------------------------------------------------
\* Configuration handed to the constructor (RouterOptions).

\* RouterPlugin records; hasHook tells whether beforeNavigation is defined.
Lazy == [name |-> "lazy", hasHook |-> TRUE]

Plugins ==
    [auth      |-> [name |-> "auth", hasHook |-> TRUE],
     analytics |-> [name |-> "analytics", hasHook |-> FALSE],
     lazy      |-> Lazy]

\* options.plugins: the global plugins.
GlobalPlugins == <<"auth", "analytics">>

\* The Route objects; render is the output of the route's render function.
Route ==
    [home |-> [path |-> <<"">>, title |-> "Home",
               render |-> "<div>Home</div>", plugins |-> <<>>],
     me   |-> [path |-> <<"user", "me">>, title |-> "",
               render |-> "<div>Me</div>", plugins |-> <<"lazy">>],
     user |-> [path |-> <<"user", ":id">>, title |-> "User Profile",
               render |-> "<div>User</div>", plugins |-> <<>>]]

\* options.routes: the routes in declaration order.
Routes == <<"home", "me", "user">>

\* Pattern segments that are named groups.
ParamSegs == {":id"}

\* The values window.location.pathname takes when the Router reads it, and
\* the pathnames navigations go to.
Locations == {<<"">>, <<"user", "me">>, <<"user", "7">>, <<"nonexistent">>}

\* Pathnames matchRoute is examined on.
Pathnames == Locations \cup {<<"user">>, <<"user", "">>, <<"user", "7", "x">>, <<"me">>}

\* document.title before the Router touches it.
InitialTitle == "Untitled"

\* ------------------------------------------------------------------------
\* URLPattern, for the pathname syntax the routes use.

\* new URLPattern({ pathname: path })
CompilePattern(path) ==
    [i \in 1..Len(path) |->
        IF path[i] \in ParamSegs
        THEN [kind |-> "group", name |-> path[i]]
        ELSE [kind |-> "fixed", name |-> path[i]]]

\* pattern.test({ pathname }): a named group matches one non-empty segment.
PatternTest(pattern, pathname) ==
    /\ Len(pattern) = Len(pathname)
    /\ \A i \in 1..Len(pattern) :
          IF pattern[i].kind = "group"
          THEN pathname[i] # ""
          ELSE pattern[i].name = pathname[i]

VARIABLES
    hasVT,          \* 'startViewTransition' in document
    constructed,    \* number of Routers constructed
    traversal,      \* the back/forward traversal under way or last made
    docTitle,       \* document.title
    patterns,       \* this.patterns, in insertion order: <<[pattern, route]>>
    currentRoute,   \* this.currentRoute
    initialized,    \* this.initialized
    navListeners,   \* listeners this Router added for 'navigate'
    popListeners,   \* listeners this Router added for 'popstate'
    initCalls,      \* number of init() calls made
    initPc,         \* the first init() call: "idle", "awaiting", "done"
    initRoute,      \* the route init() matched at startup, or NULL
    seqs,           \* the handleNavigation invocations, in start order
    navCall,        \* the latest navigate() call
    lastNav         \* the navigate or popstate event this step delivered, if kept

vars == <<hasVT, constructed, traversal, docTitle, patterns, currentRoute, initialized,
          navListeners, popListeners, initCalls, initPc, initRoute, seqs,
          navCall, lastNav>>

\* ------------------------------------------------------------------------
\* Router operations on the pattern table.

RECURSIVE MatchFrom(_, _, _)
MatchFrom(table, i, pathname) ==
    IF i > Len(table) THEN NULL
    ELSE IF PatternTest(table[i].pattern, pathname) THEN table[i].route
    ELSE MatchFrom(table, i + 1, pathname)

\* A matchRoute that keeps the last matching entry.
RECURSIVE MatchLastFrom(_, _, _)
MatchLastFrom(table, i, pathname) ==
    IF i = 0 THEN NULL
    ELSE IF PatternTest(table[i].pattern, pathname) THEN table[i].route
    ELSE MatchLastFrom(table, i - 1, pathname)

MatchRoute_Last(table, pathname) == MatchLastFrom(table, Len(table), pathname)

\* Router.matchRoute
MatchRoute(table, pathname) == MatchFrom(table, 1, pathname)

\* A loop that fills the table from the last route to the first.
BuildPatterns_Reversed ==
    [i \in 1..Len(Routes) |->
        [pattern |-> CompilePattern(Route[Routes[Len(Routes) + 1 - i]].path),
         route |-> Routes[Len(Routes) + 1 - i]]]

\* The loop of init() that fills this.patterns.
BuildPatterns ==
    [i \in 1..Len(Routes) |->
        [pattern |-> CompilePattern(Route[Routes[i]].path), route |-> Routes[i]]]

\* A getCurrentRoute that hands out a copy.
GetCurrentRoute_Copy == IF currentRoute = NULL THEN NULL ELSE "a copy"

\* Router.getCurrentRoute
GetCurrentRoute == currentRoute

\* A render() that also wants a title.
Render_NeedsTitle ==
    IF currentRoute = NULL \/ Route[currentRoute].title = "" THEN NULL
    ELSE Route[currentRoute].render

\* Router.render: the output of the current route's render function.
Render ==
    IF currentRoute = NULL THEN NULL ELSE Route[currentRoute].render

\* ------------------------------------------------------------------------
\* The navigation-handling sequence.  The Router fields it writes travel in
\* a record st = [seqs, currentRoute, docTitle].

\* A plugin list with the route's plugins first.
AllPlugins_RouteFirst(route) == Route[route].plugins \o GlobalPlugins

\* const allPlugins = [...this.plugins, ...(route.plugins ?? [])]
AllPlugins(route) == GlobalPlugins \o Route[route].plugins

\* The first plugin at or after index i that has a beforeNavigation hook
\* (Len + 1 when there is none): the `if (plugin.beforeNavigation)` of the loop.
RECURSIVE NextHook(_, _)
NextHook(all, i) ==
    IF i > Len(all) THEN i
    ELSE IF Plugins[all[i]].hasHook THEN i
    ELSE NextHook(all, i + 1)

\* The plugins of a route that have a hook, in order.
RECURSIVE HooksFrom(_, _)
HooksFrom(all, i) ==
    IF i > Len(all) THEN <<>>
    ELSE IF Plugins[all[i]].hasHook THEN <<all[i]>> \o HooksFrom(all, i + 1)
    ELSE HooksFrom(all, i + 1)

HookPlugins(route) == HooksFrom(AllPlugins(route), 1)

\* What a failing hook of plugin p throws.
ErrorOf(p) == <<"thrown by", p>>

NewSeq(route, skip) ==
    [route   |-> route,
     skip    |-> skip,       \* options?.skipViewTransition
     pc      |-> "start",    \* "hook", "transition", "done"
     idx     |-> 0,          \* index in allPlugins of the awaited hook
     invoked |-> <<>>,       \* plugins whose hook was called, in order
     settled |-> 0,          \* hooks that have fulfilled or rejected
     failed  |-> <<>>,       \* plugins whose hook failed, in order
     titled  |-> FALSE,      \* the title step was passed
     steps   |-> <<>>,       \* "title" and "commit" steps taken, in order
     cbRan   |-> FALSE,      \* the transition ran its update callback
     events  |-> <<>>]       \* notifications this sequence dispatched

\* The route-changed notification; seen is what getCurrentRoute() returns
\* to a listener while the notification is delivered.
RouteChanged(route, seen) ==
    [type |-> "route-changed", route |-> route, seen |-> seen]

\* An updateDOM that notifies before it assigns.
UpdateDOM_NotifyFirst(st, s) ==
    LET route == st.seqs[s].route
        st1   == [st EXCEPT !.seqs[s].events =
                     Append(@, RouteChanged(route, st.currentRoute))]
    IN  [st1 EXCEPT !.currentRoute = route]

\* updateDOM
UpdateDOM(st, s) ==
    LET route == st.seqs[s].route
        st1   == [st EXCEPT !.currentRoute = route]
    IN  [st1 EXCEPT !.seqs[s].events =
                        Append(@, RouteChanged(route, st1.currentRoute)),
                    !.seqs[s].steps = Append(@, "commit")]

Finish(st, s) == [st EXCEPT !.seqs[s].pc = "done"]

\* if (route.title) document.title = route.title
SetTitle(st, s) ==
    LET title == Route[st.seqs[s].route].title
    IN  [st EXCEPT !.docTitle = IF title # "" THEN title ELSE @,
                   !.seqs[s].titled = TRUE,
                   !.seqs[s].steps = Append(@, "title")]

\* The skip flag and the view-transition branch; `throws` tells whether the
\* startViewTransition call throws.
TransitionStep(st, s, throws) ==
    IF st.seqs[s].skip THEN Finish(UpdateDOM(st, s), s)
    ELSE IF hasVT
    THEN IF throws
         THEN Finish(UpdateDOM(st, s), s)
         ELSE [st EXCEPT !.seqs[s].pc = "transition"]
    ELSE Finish(UpdateDOM(st, s), s)

\* A sequence that sets the title after its transition step.
RunPlugins_TitleLast(st, s, i, throws) ==
    LET all == AllPlugins(st.seqs[s].route)
        j   == NextHook(all, i)
    IN  IF j <= Len(all)
        THEN [st EXCEPT !.seqs[s].pc = "hook",
                        !.seqs[s].idx = j,
                        !.seqs[s].invoked = Append(@, all[j])]
        ELSE SetTitle(TransitionStep(st, s, throws), s)

\* The plugin loop from index i up to its next await, and, once the loop is
\* over, the title and transition steps.
RunPlugins(st, s, i, throws) ==
    LET all == AllPlugins(st.seqs[s].route)
        j   == NextHook(all, i)
    IN  IF j <= Len(all)
        THEN [st EXCEPT !.seqs[s].pc = "hook",
                        !.seqs[s].idx = j,
                        !.seqs[s].invoked = Append(@, all[j])]
        ELSE TransitionStep(SetTitle(st, s), s, throws)

\* The error notification of the catch clause.
ErrorEvent(error, plugin, route) ==
    [type |-> "error", error |-> error, plugin |-> plugin, route |-> route]

\* A catch clause that swallows the failure.
CatchHook_Silent(st, s, error) == st

\* The catch clause around `await plugin.beforeNavigation()`.
CatchHook(st, s, error) ==
    LET q == st.seqs[s]
    IN  [st EXCEPT !.seqs[s].events =
            Append(@, ErrorEvent(error, AllPlugins(q.route)[q.idx], q.route))]

\* A sequence that a failing hook ends.
ResumeAfterHook_Abort(st, s, ok, throws) ==
    IF ok THEN RunPlugins(st, s, st.seqs[s].idx + 1, throws)
    ELSE Finish(CatchHook(st, s, ErrorOf(AllPlugins(st.seqs[s].route)[st.seqs[s].idx])), s)

\* handleNavigation resumed when the awaited hook settles.
ResumeAfterHook(st, s, ok, throws) ==
    LET q   == st.seqs[s]
        st1 == IF ok THEN st
               ELSE CatchHook(st, s, ErrorOf(AllPlugins(q.route)[q.idx]))
    IN  RunPlugins(st1, s, q.idx + 1, throws)

\* Router.handleNavigation, from the call to its first await.
HandleNavigation(st, route, skip, throws) ==
    LET s   == Len(st.seqs) + 1
        st0 == [st EXCEPT !.seqs = Append(@, NewSeq(route, skip))]
    IN  RunPlugins(st0, s, 1, throws)

RouterState == [seqs |-> seqs, currentRoute |-> currentRoute, docTitle |-> docTitle]

Store(st) ==
    /\ seqs' = st.seqs
    /\ currentRoute' = st.currentRoute
    /\ docTitle' = st.docTitle

InFlight(q) == q.pc # "done"

\* ------------------------------------------------------------------------
\* The environment's navigate events.

Origin == "https://app.example"        \* window.location.origin
OtherOrigin == "https://other.example"

\* The origins URL strings name.
Origins == {Origin, OtherOrigin}

\* The pathname a URL string's path part "/a/b" denotes.
RECURSIVE Segments(_)
Segments(toks) ==
    IF toks = <<>> THEN <<>>
    ELSE IF Len(toks) = 1 THEN <<"">>
    ELSE IF toks[2] = "/" THEN <<"">> \o Segments(Tail(toks))
    ELSE <<toks[2]>> \o Segments(Tail(Tail(toks)))

\* The path part of an href, from the pathname.
RECURSIVE Slashes(_)
Slashes(pathname) ==
    IF pathname = <<>> THEN <<>>
    ELSE (IF pathname[1] = "" THEN <<"/">> ELSE <<"/", pathname[1]>>)
            \o Slashes(Tail(pathname))

\* What new URL throws.
InvalidURL == [error |-> "TypeError: Invalid URL"]

\* A URL constructor that falls back to the base for what it cannot parse.
NewURL_Lenient(text, base) ==
    IF text = <<>> THEN [origin |-> base, pathname |-> <<"">>]
    ELSE IF text[1] \in Origins
    THEN [origin |-> text[1],
          pathname |-> IF Len(text) = 1 THEN <<"">> ELSE Segments(Tail(text))]
    ELSE IF text[1] = "https://" THEN [origin |-> base, pathname |-> <<"">>]
    ELSE IF text[1] = "/"
    THEN IF Len(text) > 1 /\ text[2] = "/" THEN [origin |-> base, pathname |-> <<"">>]
         ELSE [origin |-> base, pathname |-> Segments(text)]
    ELSE [origin |-> base, pathname |-> Segments(<<"/">> \o text)]

\* new URL(text, base) for a base that is an origin: an absolute URL keeps
\* its origin, a path is resolved against the base, a relative reference
\* against the base's root, and a scheme or "//" with no host after it
\* cannot be parsed.
NewURL(text, base) ==
    IF text = <<>> THEN [origin |-> base, pathname |-> <<"">>]
    ELSE IF text[1] \in Origins
    THEN [origin |-> text[1],
          pathname |-> IF Len(text) = 1 THEN <<"">> ELSE Segments(Tail(text))]
    ELSE IF text[1] = "https://" THEN InvalidURL
    ELSE IF text[1] = "/"
    THEN IF Len(text) > 1 /\ text[2] = "/" THEN InvalidURL
         ELSE [origin |-> base, pathname |-> Segments(text)]
    ELSE [origin |-> base, pathname |-> Segments(<<"/">> \o text)]

\* url.href
Href(url) == <<url.origin>> \o Slashes(url.pathname)

\* What a NavigateEvent shows the listener.
NavEvent(origin, pathname, download, form, can) ==
    [origin |-> origin, pathname |-> pathname, downloadRequest |-> download,
     formData |-> form, canIntercept |-> can]

\* An ordinary same-origin navigation the listener is allowed to intercept.
PlainEvent(pathname) == NavEvent(Origin, pathname, FALSE, FALSE, TRUE)

\* The navigation attempts the environment makes: an ordinary one to every
\* location, and a download, a form submission, a navigation that cannot be
\* intercepted and a cross-origin one (never interceptable), each to a
\* pathname that a route matches.
NavEvents ==
    { PlainEvent(pathname) : pathname \in Locations }
    \cup { NavEvent(Origin, <<"">>, TRUE, FALSE, TRUE),
           NavEvent(Origin, <<"user", "me">>, FALSE, TRUE, TRUE),
           NavEvent(Origin, <<"user", "7">>, FALSE, FALSE, FALSE),
           NavEvent(OtherOrigin, <<"">>, FALSE, FALSE, FALSE) }

NoNav == [kind |-> "none"]

\* A 'navigate' listener that does not look at canIntercept.
NavigateListener_NoCanIntercept(ev) ==
    IF ev.origin # Origin THEN NULL
    ELSE IF ev.downloadRequest \/ ev.formData THEN NULL
    ELSE MatchRoute(patterns, ev.pathname)

\* The 'navigate' listener up to its decision: the route it intercepts for,
\* or NULL when it returns without intercepting.
NavigateListener(ev) ==
    IF ev.origin # Origin THEN NULL
    ELSE IF ev.downloadRequest \/ ev.formData THEN NULL
    ELSE IF ~ev.canIntercept THEN NULL
    ELSE MatchRoute(patterns, ev.pathname)

\* this.currentRoute?.path
CurrentPath ==
    IF currentRoute = NULL THEN <<"undefined">> ELSE Route[currentRoute].path

\* A 'popstate' listener that does not compare with the current route.
PopstateListener_NoCompare(pathname) == MatchRoute(patterns, pathname)

\* The 'popstate' listener up to its decision, run at pathname: the route it
\* handles, or NULL.
PopstateListener(pathname) ==
    LET route == MatchRoute(patterns, pathname)
    IN  IF route # NULL /\ Route[route].path # CurrentPath THEN route ELSE NULL

\* An intercept handler that does not await handleNavigation.
HandlerSettled_NoAwait(s) == TRUE

\* The promise of the intercept handler of sequence s has settled:
\* handler: async () => { await this.handleNavigation(route) }.
HandlerSettled(s) == seqs[s].pc = "done"

\* An init() whose guard only sees a finished init().
InitGuard_Late == initPc = "done"

\* if (this.initialized) return
InitGuard == initialized

\* Whether a startViewTransition call may throw: only where it exists.
ThrowOutcomes == IF hasVT THEN BOOLEAN ELSE {FALSE}

\* The outcomes of the startViewTransition call that a run of the plugin
\* loop of route from index i can meet: the call is made only when the loop
\* meets no further hook, and is not made at all without a route.
ThrowsFrom(route, i) ==
    IF route = NULL THEN {FALSE}
    ELSE IF NextHook(AllPlugins(route), i) <= Len(AllPlugins(route)) THEN {FALSE}
    ELSE ThrowOutcomes

\* ------------------------------------------------------------------------
\* Initial state: a constructed Router in a loaded document.

\* The arguments of a navigate() call: the path, a string or a URL object
\* (with the text the application built it from), and options.state.
NoInput == [kind |-> "none", text |-> <<>>]
StringInput(text) == [kind |-> "string", text |-> text]
UrlInput(text) == [kind |-> "url", text |-> text, url |-> NewURL(text, Origin)]

Undefined == "undefined"
Payload == "{ user }"

\* The navigate() calls the application makes: with a path, a relative
\* reference, a path no route matches, a URL of another origin and two
\* strings that are no URL; with URL objects; with and without a payload.
NavCalls ==
    { [input |-> StringInput(text), state |-> Undefined] :
        text \in { <<"user", "/", "me">>, <<"/", "nonexistent">>,
                   <<OtherOrigin, "/">>, <<"https://">>, <<"/", "/">> } }
    \cup { [input |-> StringInput(<<"/">>), state |-> Payload],
           [input |-> UrlInput(<<"/">>), state |-> Payload],
           [input |-> UrlInput(<<OtherOrigin, "/">>), state |-> Undefined] }

\* A navigate() that gives a URL object the Router's own origin.
NavigateUrl_OwnOrigin(input) ==
    IF input.kind = "string" THEN NewURL(input.text, Origin)
    ELSE [origin |-> Origin, pathname |-> input.url.pathname]

\* typeof path === 'string' ? new URL(path, window.location.origin) : path
NavigateUrl(input) ==
    IF input.kind = "string" THEN NewURL(input.text, Origin) ELSE input.url

\* The call navigate() makes of window.navigation.navigate.
NavigationRequest(url, state) ==
    [href |-> Href(url), history |-> "push",
     info |-> [viewTransition |-> TRUE], state |-> state]

\* The navigate event a request for href raises: the listener's
\* new URL(event.destination.url), and canIntercept as the browser sets it.
EventOf(href) ==
    NavEvent(href[1], Segments(Tail(href)), FALSE, FALSE, href[1] = Origin)

IdleCall == [pc |-> "idle", seq |-> 0, pathname |-> <<>>, input |-> NoInput,
             state |-> Undefined, requests |-> <<>>]

\* A navigate() call whose navigation was aborted by a later one.
RejectedCall == [IdleCall EXCEPT !.pc = "rejected"]

\* No back/forward traversal was made yet.
NoTraversal == [pc |-> "none", pathname |-> <<>>, intercepted |-> FALSE,
                started |-> 0]

Init ==
    /\ hasVT \in BOOLEAN
    /\ constructed = 1
    /\ traversal = NoTraversal
    /\ docTitle = InitialTitle
    /\ patterns = <<>>
    /\ currentRoute = NULL
    /\ initialized = FALSE
    /\ navListeners = 0
    /\ popListeners = 0
    /\ initCalls = 0
    /\ initPc = "idle"
    /\ initRoute = NULL
    /\ seqs = <<>>
    /\ navCall = IdleCall
    /\ lastNav = NoNav

\* ------------------------------------------------------------------------
\* Actions.

\* A constructor that also sets up the listeners.
Construct_Eager ==
    /\ constructed < MaxRouters
    /\ constructed' = constructed + 1
    /\ navListeners' = navListeners + 1
    /\ popListeners' = popListeners + 1
    /\ lastNav' = NoNav
    /\ UNCHANGED <<hasVT, traversal, docTitle, patterns, currentRoute, initialized,
                   initCalls, initPc, initRoute, seqs, navCall>>

\* new Router(options) for a further Router, on which nothing is called:
\* the constructor stores options.routes and options.plugins in the new
\* object.  navListeners and popListeners count the listeners of them all.
Construct ==
    /\ constructed < MaxRouters
    /\ constructed' = constructed + 1
    /\ lastNav' = NoNav
    /\ UNCHANGED <<hasVT, traversal, docTitle, patterns, currentRoute, initialized,
                   navListeners, popListeners, initCalls, initPc, initRoute,
                   seqs, navCall>>

\* Router.init, from the call to its await (or its return); pathname is
\* window.location.pathname at the call.
RouterInit(pathname, throws) ==
    /\ initCalls' = initCalls + 1
    /\ lastNav' = NoNav
    /\ IF InitGuard
       THEN /\ throws = FALSE
            /\ UNCHANGED <<hasVT, constructed, traversal, docTitle, patterns, currentRoute,
                        initialized, navListeners, popListeners, initPc,
                        initRoute, seqs, navCall>>
       ELSE LET table == patterns \o BuildPatterns
                route == MatchRoute(table, pathname)
                st    == [RouterState EXCEPT !.currentRoute = route]
            IN  /\ throws \in ThrowsFrom(route, 1)
                /\ patterns' = table
                /\ navListeners' = navListeners + 1
                /\ popListeners' = popListeners + 1
                /\ initialized' = TRUE
                /\ initRoute' = route
                /\ IF route # NULL
                   THEN /\ Len(seqs) < MaxSeqs
                        /\ Store(HandleNavigation(st, route, FALSE, throws))
                        /\ initPc' = "awaiting"
                   ELSE /\ Store(st)
                        /\ initPc' = "done"
                /\ UNCHANGED <<hasVT, constructed, traversal, navCall>>

\* The application's first init() call.
InitCall(pathname, throws) ==
    /\ initCalls = 0
    /\ RouterInit(pathname, throws)

\* A further init() call.
InitAgain(pathname, throws) ==
    /\ initCalls >= 1
    /\ initCalls < MaxInitCalls
    /\ RouterInit(pathname, throws)

\* init() resumes from `await this.handleNavigation(this.currentRoute)`.
InitReturns ==
    /\ initPc = "awaiting"
    /\ seqs[1].pc = "done"
    /\ initPc' = "done"
    /\ lastNav' = NoNav
    /\ UNCHANGED <<hasVT, constructed, traversal, docTitle, patterns, currentRoute,
                   initialized, navListeners, popListeners, initCalls,
                   initRoute, seqs, navCall>>

\* A navigate event is dispatched and the Router's listener, if registered,
\* runs.  call: the navigate() call of this Router the event comes from,
\* which then awaits the navigation (IdleCall when it comes from elsewhere);
\* any other navigation aborts the one a pending navigate() call awaits.
\* observed: the event is kept in lastNav for the properties that read it.
DeliverNavigate(ev, throws, call, observed) ==
    LET route == IF navListeners > 0 THEN NavigateListener(ev) ELSE NULL
    IN  /\ throws \in ThrowsFrom(route, 1)
        /\ IF route # NULL
           THEN /\ Len(seqs) < MaxSeqs
                /\ Store(HandleNavigation(RouterState, route, FALSE, throws))
           ELSE UNCHANGED <<seqs, currentRoute, docTitle>>
        /\ lastNav' = IF observed
                      THEN [kind |-> "navigate", event |-> ev,
                            intercepted |-> route # NULL]
                      ELSE NoNav
        /\ navCall' =
              IF call # IdleCall
              THEN [call EXCEPT
                      !.pc = "pending",
                      !.seq = IF route # NULL THEN Len(seqs) + 1 ELSE 0,
                      !.pathname = ev.pathname]
              ELSE IF navCall.pc = "pending"
              THEN RejectedCall
              ELSE navCall
        /\ UNCHANGED <<hasVT, constructed, patterns, initialized, navListeners,
                       popListeners, initCalls, initPc, initRoute>>

\* A navigation attempt made outside the Router (a link, a form, a script).
NavigateEvent(ev, throws) ==
    /\ DeliverNavigate(ev, throws, IdleCall, FALSE)
    /\ UNCHANGED traversal

\* The same, with the event kept in lastNav.
NavigateEventObserved(ev, throws) ==
    /\ DeliverNavigate(ev, throws, IdleCall, TRUE)
    /\ UNCHANGED traversal

\* Router.navigate(path, options), up to its await, or to the throw of the
\* URL constructor that rejects the promise it returns.
Navigate(c, throws) ==
    LET url  == NavigateUrl(c.input)
        call == [IdleCall EXCEPT !.input = c.input, !.state = c.state]
    IN  IF url = InvalidURL
        THEN /\ throws = FALSE
             /\ navCall' = [call EXCEPT !.pc = "failed"]
             /\ lastNav' = NoNav
             /\ UNCHANGED <<hasVT, constructed, traversal, docTitle, patterns, currentRoute,
                            initialized, navListeners, popListeners,
                            initCalls, initPc, initRoute, seqs>>
        ELSE LET request == NavigationRequest(url, c.state)
             IN  /\ DeliverNavigate(EventOf(request.href), throws,
                                    [call EXCEPT !.requests = <<request>>], FALSE)
                 /\ UNCHANGED traversal

\* navigate() resumes from `await ... .finished`.
NavigateResolves ==
    /\ navCall.pc = "pending"
    /\ navCall.seq # 0
    /\ HandlerSettled(navCall.seq)
    /\ navCall' = [navCall EXCEPT !.pc = "resolved"]
    /\ lastNav' = NoNav
    /\ UNCHANGED <<hasVT, constructed, traversal, docTitle, patterns, currentRoute,
                   initialized, navListeners, popListeners, initCalls,
                   initPc, initRoute, seqs>>

\* The history position changes, window.location.pathname now being
\* pathname, and the Router's popstate listener, if registered, runs.
DeliverPopState(pathname, throws, observed) ==
    /\ LET route == IF popListeners > 0 THEN PopstateListener(pathname) ELSE NULL
       IN  /\ throws \in ThrowsFrom(route, 1)
           /\ IF route # NULL
              THEN /\ Len(seqs) < MaxSeqs
                   /\ Store(HandleNavigation(RouterState, route, FALSE, throws))
              ELSE UNCHANGED <<seqs, currentRoute, docTitle>>
    /\ lastNav' = IF observed
                  THEN [kind |-> "popstate", pathname |-> pathname]
                  ELSE NoNav
    /\ UNCHANGED <<hasVT, constructed, patterns, initialized, navListeners,
                   popListeners, initCalls, initPc, initRoute, navCall>>

PopState(pathname, throws) ==
    /\ DeliverPopState(pathname, throws, FALSE)
    /\ UNCHANGED traversal

\* The same, with the pathname kept in lastNav.
PopStateObserved(pathname, throws) ==
    /\ DeliverPopState(pathname, throws, TRUE)
    /\ UNCHANGED traversal

\* The user goes back or forward to a history entry of this document at
\* pathname: the browser raises a navigate event that can be intercepted,
\* and owes the popstate event of the traversal.  started counts the
\* sequences the listeners start for this traversal.
Traverse(pathname, throws) ==
    /\ traversal.pc # "navigated"
    /\ DeliverNavigate(PlainEvent(pathname), throws, IdleCall, FALSE)
    /\ traversal' = [pc |-> "navigated", pathname |-> pathname,
                     intercepted |-> Len(seqs') > Len(seqs),
                     started |-> Len(seqs') - Len(seqs)]

\* The popstate event of the traversal is dispatched, at once or after
\* other steps, the location being the traversal's pathname.
TraversalPopState(throws) ==
    /\ traversal.pc = "navigated"
    /\ DeliverPopState(traversal.pathname, throws, FALSE)
    /\ traversal' = [traversal EXCEPT
                       !.pc = "delivered",
                       !.started = @ + (Len(seqs') - Len(seqs))]

Frame ==
    /\ lastNav' = NoNav
    /\ UNCHANGED <<hasVT, constructed, traversal, patterns, initialized, navListeners,
                   popListeners, initCalls, initPc, initRoute, navCall>>

\* The hook sequence s awaits settles: it fulfils (ok) or rejects.
HookSettles(s, ok, throws) ==
    /\ seqs[s].pc = "hook"
    /\ throws \in ThrowsFrom(seqs[s].route, seqs[s].idx + 1)
    /\ LET p  == AllPlugins(seqs[s].route)[seqs[s].idx]
           st0 == [RouterState EXCEPT !.seqs[s].settled = @ + 1]
           st == IF ok THEN st0
                 ELSE [st0 EXCEPT !.seqs[s].failed = Append(@, p)]
       IN  Store(ResumeAfterHook(st, s, ok, throws))
    /\ Frame

\* The view transition of sequence s calls its update callback.
TransitionCallback(s) ==
    /\ seqs[s].pc = "transition"
    /\ ~seqs[s].cbRan
    /\ Store([UpdateDOM(RouterState, s) EXCEPT !.seqs[s].cbRan = TRUE])
    /\ Frame

\* transition.finished fulfils, which it does after the update callback.
TransitionFinished(s) ==
    /\ seqs[s].pc = "transition"
    /\ seqs[s].cbRan
    /\ Store(Finish(RouterState, s))
    /\ Frame

\* A rejection of transition.finished that nothing catches.
TransitionRejected_NoFallback(s) ==
    /\ seqs[s].pc = "transition"
    /\ Store(Finish(RouterState, s))
    /\ Frame

\* transition.finished rejects: the catch clause runs updateDOM.
TransitionRejected(s) ==
    /\ seqs[s].pc = "transition"
    /\ Store(Finish(UpdateDOM(RouterState, s), s))
    /\ Frame

\* The Router and its environment: one init() call, navigation attempts,
\* history movements, and the settling of hooks and transitions.
Next ==
    \/ \E pathname \in Locations, throws \in ThrowOutcomes :
          InitCall(pathname, throws)
    \/ InitReturns
    \/ \E ev \in NavEvents, throws \in ThrowOutcomes : NavigateEvent(ev, throws)
    \/ \E pathname \in Locations, throws \in ThrowOutcomes :
          PopState(pathname, throws)
    \/ \E s \in 1..Len(seqs), ok \in BOOLEAN, throws \in ThrowOutcomes :
          HookSettles(s, ok, throws)
    \/ \E s \in 1..Len(seqs) : TransitionCallback(s)
    \/ \E s \in 1..Len(seqs) : TransitionFinished(s)
    \/ \E s \in 1..Len(seqs) : TransitionRejected(s)

Spec == Init /\ [][Next]_vars

\* The view transition of sequence s settles, one way or the other.
TransitionSettles(s) ==
    /\ s \in 1..Len(seqs)
    /\ (TransitionFinished(s) \/ TransitionRejected(s))

\* The Router in an environment that settles what only it can settle: a view
\* transition that was started ends, and an async function whose awaited
\* promise has settled is resumed.  Hooks are the application's and need
\* not settle.
Fairness ==
    /\ \A s \in 1..MaxSeqs : WF_vars(TransitionSettles(s))
    /\ WF_vars(InitReturns)

SpecFair == Spec /\ Fairness

\* The same with further Routers constructed and navigate() called before
\* as well as after init().
NextConstruct ==
    \/ Next
    \/ Construct
    \/ \E c \in NavCalls, throws \in ThrowOutcomes :
          initCalls = 0 /\ Navigate(c, throws)

SpecConstruct == Init /\ [][NextConstruct]_vars

\* The same with back/forward traversals, which raise both events.
NextTraverse ==
    \/ Next
    \/ \E pathname \in Locations, throws \in ThrowOutcomes :
          Traverse(pathname, throws)
    \/ \E throws \in ThrowOutcomes : TraversalPopState(throws)

SpecTraverse == Init /\ [][NextTraverse]_vars

\* The same with further init() calls.
NextInit ==
    \/ Next
    \/ \E pathname \in Locations, throws \in ThrowOutcomes :
          InitAgain(pathname, throws)

SpecInit == Init /\ [][NextInit]_vars

\* Every operation of the Router: further init() calls and navigate() calls
\* as well.
NextAll ==
    \/ NextInit
    \/ \E c \in NavCalls, throws \in ThrowOutcomes : Navigate(c, throws)
    \/ NavigateResolves

SpecAll == Init /\ [][NextAll]_vars

\* The same with navigate() calls.
NextNavigate ==
    \/ Next
    \/ \E c \in NavCalls, throws \in ThrowOutcomes : Navigate(c, throws)
    \/ NavigateResolves

SpecNavigate == Init /\ [][NextNavigate]_vars

\* The Router with every navigate event and history movement kept in lastNav.
NextObserved ==
    \/ \E pathname \in Locations, throws \in ThrowOutcomes :
          InitCall(pathname, throws)
    \/ InitReturns
    \/ \E ev \in NavEvents, throws \in ThrowOutcomes :
          NavigateEventObserved(ev, throws)
    \/ \E pathname \in Locations, throws \in ThrowOutcomes :
          PopStateObserved(pathname, throws)
    \/ \E s \in 1..Len(seqs), ok \in BOOLEAN, throws \in ThrowOutcomes :
          HookSettles(s, ok, throws)
    \/ \E s \in 1..Len(seqs) : TransitionCallback(s)
    \/ \E s \in 1..Len(seqs) : TransitionFinished(s)
    \/ \E s \in 1..Len(seqs) : TransitionRejected(s)

SpecObserved == Init /\ [][NextObserved]_vars

\* ------------------------------------------------------------------------
\* Properties.

SeqIds == 1..Len(seqs)

IsRouteChanged(e) == e.type = "route-changed"
IsError(e) == e.type = "error"

\* The route-changed notifications, and the error notifications, of a sequence.
RouteChangedOf(q) == SelectSeq(q.events, IsRouteChanged)
ErrorsOf(q) == SelectSeq(q.events, IsError)

RECURSIVE SumRouteChanged(_)
SumRouteChanged(s) ==
    IF s = 0 THEN 0 ELSE Len(RouteChangedOf(seqs[s])) + SumRouteChanged(s - 1)

\* The route-changed notifications the Router has dispatched so far.
TotalRouteChanged == SumRouteChanged(Len(seqs))

Committed(q) ==
    \E i \in 1..Len(q.events) :
        q.events[i] = RouteChanged(q.route, q.route)

\* The set of elements of a sequence.
Range(f) == { f[i] : i \in 1..Len(f) }

\* C1: a plugin whose beforeNavigation hook fails does not stop the
\* navigation-handling sequence: while the sequence is still in its plugin
\* loop the failed hooks all lie before the hook it now awaits (the next
\* hook was called), once it is past the loop every hook of the global and
\* the route's plugins was called, and when it has finished it has made the
\* target route current and fired route-changed for it.
C1_FailingHookDoesNotStop ==
    \A s \in SeqIds :
        LET q == seqs[s]
        IN  q.failed # <<>> =>
              /\ q.pc = "hook" =>
                    /\ Len(q.invoked) > Len(q.failed)
                    /\ Range(q.failed) \subseteq
                          Range(SubSeq(q.invoked, 1, Len(q.invoked) - 1))
              /\ q.pc \in {"transition", "done"} =>
                    q.invoked = HookPlugins(q.route)
              /\ q.pc = "done" => Committed(q)

\* A finished sequence for the route with the lazy plugin whose first hook
\* (auth) failed and whose later hook (lazy) was still called.
C1_Witness ==
    \E s \in SeqIds :
        /\ seqs[s].pc = "done"
        /\ seqs[s].failed = <<"auth">>
        /\ seqs[s].invoked = <<"auth", "lazy">>
        /\ Committed(seqs[s])

\* C2: in every navigation-handling sequence the error notifications are
\* exactly one per failed hook, in the order the hooks failed, each carrying
\* the failure thrown, the plugin whose hook failed and the sequence's
\* target route; hooks that succeed and plugins without a hook give none.
C2_OneErrorPerFailedHook ==
    \A s \in SeqIds :
        LET q == seqs[s]
        IN  ErrorsOf(q) =
              [i \in 1..Len(q.failed) |->
                  [type |-> "error", error |-> ErrorOf(q.failed[i]),
                   plugin |-> q.failed[i], route |-> q.route]]

\* A finished sequence whose auth hook succeeded, whose analytics plugin has
\* no hook and whose lazy hook failed: one error notification, for lazy.
C2_Witness ==
    \E s \in SeqIds :
        /\ seqs[s].pc = "done"
        /\ seqs[s].failed = <<"lazy">>
        /\ Len(ErrorsOf(seqs[s])) = 1
        /\ "analytics" \in Range(AllPlugins(seqs[s].route))

\* C3: when init() completes having matched the startup pathname, the
\* sequence it ran has fired exactly one route-changed notification, which
\* carries the matched route, and, no other navigation having been handled
\* meanwhile, the document title is that route's title (for a route that has
\* one: the title step leaves the document title alone for an empty title).
C3_InitFiresOneRouteChanged ==
    [][(initPc = "awaiting" /\ initPc' = "done") =>
          /\ RouteChangedOf(seqs'[1]) = <<RouteChanged(initRoute, initRoute)>>
          /\ (Len(seqs') = 1 /\ Route[initRoute].title # "") =>
                (TotalRouteChanged' = 1 /\ docTitle' = Route[initRoute].title)]_vars

\* C4: init() runs its body at most once: after any number of init() calls
\* there is exactly one navigate listener and one popstate listener, and the
\* pattern table holds one entry per route.
C4_InitBodyOnce ==
    initCalls >= 1 =>
        /\ navListeners = 1
        /\ popListeners = 1
        /\ Len(patterns) = Len(Routes)

\* A second init() call was made while the first still awaits its sequence.
C4_Witness ==
    /\ initCalls = 2
    /\ initPc = "awaiting"
    /\ seqs[1].pc # "done"
    /\ navListeners = 1

\* C5: a navigate(path) call for a path that matches a route has resolved
\* only if the navigation-handling sequence for the route of that path has
\* finished and has fired route-changed for it.
C5_NavigateResolvesAfterRouteChanged ==
    navCall.pc = "resolved" =>
        /\ navCall.seq \in SeqIds
        /\ LET q == seqs[navCall.seq]
           IN  /\ q.route = MatchRoute(patterns, navCall.pathname)
               /\ q.pc = "done"
               /\ Committed(q)

\* A navigate() call that resolved.
C5_Witness ==
    /\ navCall.pc = "resolved"
    /\ Committed(seqs[navCall.seq])

\* C6: at most one navigation-handling sequence is in flight at any time.
C6_OneSequenceInFlight ==
    Cardinality({ s \in SeqIds : InFlight(seqs[s]) }) <= 1

\* C7: render() returns null exactly when getCurrentRoute() returns null,
\* and otherwise the output of the current route's render function.
C7_RenderAbsentIffNoCurrentRoute ==
    /\ (Render = NULL) <=> (GetCurrentRoute = NULL)
    /\ GetCurrentRoute # NULL => Render = Route[GetCurrentRoute].render

\* The route without a title is current and render() returns its output.
C7_Witness ==
    /\ GetCurrentRoute = "me"
    /\ Render = "<div>Me</div>"

\* The first route in declaration order whose pattern matches, or NULL.
FirstDeclared(pathname) ==
    LET matching == { i \in 1..Len(Routes) :
                        PatternTest(CompilePattern(Route[Routes[i]].path), pathname) }
    IN  IF matching = {} THEN NULL
        ELSE Routes[CHOOSE i \in matching : \A j \in matching : i <= j]

\* C8: after init, matchRoute returns the route of the first pattern in
\* declaration order that matches the pathname, and null when none does.
C8_FirstDeclaredMatchWins ==
    initialized =>
        \A pathname \in Pathnames :
            MatchRoute(patterns, pathname) = FirstDeclared(pathname)

\* After init "/user/me" is matched by two patterns and goes to the first
\* declared, and "/nonexistent" is matched by none.
C8_Witness ==
    /\ initialized
    /\ PatternTest(patterns[2].pattern, <<"user", "me">>)
    /\ PatternTest(patterns[3].pattern, <<"user", "me">>)
    /\ MatchRoute(patterns, <<"user", "me">>) = "me"
    /\ MatchRoute(patterns, <<"nonexistent">>) = NULL

\* The conditions under which a navigation attempt is to be intercepted.
Interceptable(ev) ==
    /\ ev.origin = Origin
    /\ ~ev.downloadRequest
    /\ ~ev.formData
    /\ ev.canIntercept
    /\ FirstDeclared(ev.pathname) # NULL

\* C9: once the Router listens, a navigate event is intercepted, and a
\* sequence for the matched route started, exactly when the destination is
\* same-origin, the navigation is no download and no form submission, it can
\* be intercepted and its pathname matches a route; any other event leaves
\* the sequences, the notifications, the current route and the title alone.
C9_InterceptIffEligible ==
    [][lastNav'.kind = "navigate" =>
          IF initialized /\ Interceptable(lastNav'.event)
          THEN /\ lastNav'.intercepted
               /\ Len(seqs') = Len(seqs) + 1
               /\ SubSeq(seqs', 1, Len(seqs)) = seqs
               /\ seqs'[Len(seqs')].route = FirstDeclared(lastNav'.event.pathname)
          ELSE /\ ~lastNav'.intercepted
               /\ seqs' = seqs
               /\ currentRoute' = currentRoute
               /\ docTitle' = docTitle]_vars

\* A navigate event to a matched pathname was just ignored because it cannot
\* be intercepted, while a route is current.
C9_Witness ==
    /\ lastNav.kind = "navigate"
    /\ ~lastNav.intercepted
    /\ ~lastNav.event.canIntercept
    /\ lastNav.event.origin = Origin
    /\ FirstDeclared(lastNav.event.pathname) # NULL
    /\ currentRoute # NULL

\* C10: right after the history has moved to a pathname that no route
\* matches, no sequence being in flight, getCurrentRoute() and render()
\* return null.
C10_UnmatchedLocationHasNoRoute ==
    (/\ initialized
     /\ lastNav.kind = "popstate"
     /\ MatchRoute(patterns, lastNav.pathname) = NULL
     /\ \A s \in SeqIds : ~InFlight(seqs[s]))
    => (GetCurrentRoute = NULL /\ Render = NULL)

\* C11: every route-changed notification carries the target route of the
\* sequence that dispatched it and is delivered while getCurrentRoute() is
\* that route, the notification of the initial commit of init() included;
\* and the step that dispatches it leaves currentRoute at that route.
C11_RouteChangedSeesItsRoute ==
    [][\A s \in 1..Len(seqs') :
          LET before == IF s <= Len(seqs) THEN RouteChangedOf(seqs[s]) ELSE <<>>
              after  == RouteChangedOf(seqs'[s])
          IN  /\ \A i \in 1..Len(after) :
                    after[i] = RouteChanged(seqs'[s].route, seqs'[s].route)
              /\ Len(after) > Len(before) =>
                    /\ Len(after) = Len(before) + 1
                    /\ currentRoute' = seqs'[s].route]_vars

\* The sequence of init() has committed, and a later sequence for another
\* route has committed over it.
C11_Witness ==
    /\ initRoute # NULL
    /\ Committed(seqs[1])
    /\ \E s \in SeqIds :
          /\ s > 1
          /\ seqs[s].route # seqs[1].route
          /\ Committed(seqs[s])
          /\ currentRoute = seqs[s].route

\* The hooks a sequence for route is to run: those of the global plugins in
\* declared order, then those of the route's own plugins in declared order.
GlobalThenRoute(route) ==
    HooksFrom(GlobalPlugins, 1) \o HooksFrom(Route[route].plugins, 1)

\* C12: the hooks a sequence has called so far are an initial part of the
\* hooks of the global plugins followed by those of the route's plugins,
\* each list in declared order; at most one called hook has not settled, so
\* a hook is called only when the one before it has fulfilled or rejected;
\* and a sequence past its plugin loop has called and settled them all.
C12_HooksInOrderOneAtATime ==
    \A s \in SeqIds :
        LET q == seqs[s]
        IN  /\ Len(q.invoked) <= Len(GlobalThenRoute(q.route))
            /\ q.invoked = SubSeq(GlobalThenRoute(q.route), 1, Len(q.invoked))
            /\ q.settled <= Len(q.invoked)
            /\ Len(q.invoked) <= q.settled + 1
            /\ q.pc = "hook" => Len(q.invoked) = q.settled + 1
            /\ q.pc \in {"transition", "done"} =>
                  /\ q.invoked = GlobalThenRoute(q.route)
                  /\ q.settled = Len(q.invoked)

\* A sequence for the route with its own plugin awaits that plugin's hook,
\* the global hook before it having failed.
C12_Witness ==
    \E s \in SeqIds :
        /\ seqs[s].pc = "hook"
        /\ seqs[s].invoked = <<"auth", "lazy">>
        /\ seqs[s].settled = 1
        /\ seqs[s].failed = <<"auth">>

\* Where sequence s stands, "none" before it is started.
PcOf(s) == IF s \in SeqIds THEN seqs[s].pc ELSE "none"

\* The step ends sequence s.
Ends(s) ==
    /\ seqs'[s].pc = "done"
    /\ (s <= Len(seqs) => seqs[s].pc # "done")

\* The step ends sequence s through the catch clause of the transition
\* branch: where startViewTransition exists, only that clause commits in the
\* step that ends the sequence.
EndsByFallback(s) ==
    /\ Ends(s)
    /\ hasVT
    /\ Len(RouteChangedOf(seqs'[s])) >
          (IF s <= Len(seqs) THEN Len(RouteChangedOf(seqs[s])) ELSE 0)

\* C13: a failing view transition does not keep the route change from
\* completing.  A sequence that ends has fired route-changed for its target
\* route, and one that ends through the catch clause (the request threw or
\* transition.finished rejected) ends with currentRoute at its target route;
\* a sequence waiting for its transition ends, committed; and an init()
\* awaiting such a sequence returns.
C13_TransitionFailureStillCommits ==
    /\ [][\A s \in 1..Len(seqs') :
             /\ Ends(s) => Committed(seqs'[s])
             /\ EndsByFallback(s) => currentRoute' = seqs'[s].route]_vars
    /\ \A s \in 1..MaxSeqs :
          (PcOf(s) = "transition") ~> (PcOf(s) = "done" /\ Committed(seqs[s]))
    /\ (initPc = "awaiting" /\ PcOf(1) = "transition") ~> (initPc = "done")

\* A sequence whose transition failed before the update callback ran has
\* ended with exactly the commit of the catch clause, its target current.
C13_Witness ==
    \E s \in SeqIds :
        /\ hasVT
        /\ seqs[s].pc = "done"
        /\ ~seqs[s].cbRan
        /\ Len(RouteChangedOf(seqs[s])) = 1
        /\ currentRoute = seqs[s].route
        /\ initPc = "done"

\* C14: a navigate() call whose path resolves makes exactly one request of
\* window.navigation.navigate, and the request depends only on the URL the
\* path denotes and on options.state, not on whether the path was given as
\* a string or as the URL object built from that string: its href is that
\* URL's, its history mode is push, its info is the view-transition hint and
\* its state is the payload given; the navigation it raises goes to that
\* URL's pathname.
C14_UrlObjectAsString ==
    navCall.pc \in {"pending", "resolved"} =>
        LET denoted == NewURL(navCall.input.text, Origin)
        IN  /\ navCall.input.kind \in {"string", "url"}
            /\ navCall.requests =
                  << [href    |-> <<denoted.origin>> \o Slashes(denoted.pathname),
                      history |-> "push",
                      info    |-> [viewTransition |-> TRUE],
                      state   |-> navCall.state] >>
            /\ navCall.pathname = denoted.pathname

\* A navigate() call given a URL object and a state payload has resolved.
C14_Witness ==
    /\ navCall.pc = "resolved"
    /\ navCall.input.kind = "url"
    /\ navCall.state = Payload
    /\ Len(navCall.requests) = 1

\* The strings new URL cannot parse against an origin: a scheme, or the
\* two slashes of a scheme-relative reference, with no host after it.
Unparsable(text) ==
    \/ text = <<"https://">>
    \/ (Len(text) >= 2 /\ text[1] = "/" /\ text[2] = "/")

\* C15: a navigate() call given a string that cannot be resolved to a URL
\* rejects, makes no request of window.navigation.navigate, and leaves the
\* sequences with their notifications, the current route and the document
\* title as they were.
C15_UnresolvableStringRejects ==
    [][(navCall' # navCall /\ navCall'.input.kind = "string"
          /\ Unparsable(navCall'.input.text)) =>
            /\ navCall'.pc = "failed"
            /\ navCall'.requests = <<>>
            /\ seqs' = seqs
            /\ currentRoute' = currentRoute
            /\ docTitle' = docTitle]_vars

\* A navigate() call with an unparsable string has failed while a route is
\* current and a sequence is in flight.
C15_Witness ==
    /\ navCall.pc = "failed"
    /\ navCall.input = StringInput(<<"/", "/">>)
    /\ currentRoute # NULL
    /\ \E s \in SeqIds : InFlight(seqs[s])

\* C16: from construction until the first init() call no navigate and no
\* popstate listener is registered, the pattern table is empty, no route is
\* current and render() returns null, the document title is untouched and
\* no sequence has run, so no notification was dispatched: whatever number
\* of Routers was constructed and whatever navigations, history movements
\* and navigate() calls took place.
C16_ConstructionDoesNothing ==
    initCalls = 0 =>
        /\ navListeners = 0
        /\ popListeners = 0
        /\ patterns = <<>>
        /\ ~initialized
        /\ GetCurrentRoute = NULL
        /\ Render = NULL
        /\ docTitle = InitialTitle
        /\ seqs = <<>>

\* Before init(), a second Router was constructed and a navigate() call for
\* a path of a declared route is pending, nothing having handled it.
C16_Witness ==
    /\ initCalls = 0
    /\ constructed = 2
    /\ navCall.pc = "pending"
    /\ navCall.seq = 0
    /\ FirstDeclared(navCall.pathname) # NULL

\* The step is a state commit of sequence s: it dispatches a route-changed
\* notification of that sequence.
Commits(s) ==
    Len(RouteChangedOf(seqs'[s])) >
        (IF s <= Len(seqs) THEN Len(RouteChangedOf(seqs[s])) ELSE 0)

\* C17: every step that changes what getCurrentRoute() returns is a state
\* commit of a sequence whose target is the new current route and which
\* has by then called and settled all its hooks and passed its title step.
C17_CurrentRouteChangesOnlyAtCommit ==
    [][GetCurrentRoute' # GetCurrentRoute =>
          \E s \in 1..Len(seqs') :
              /\ Commits(s)
              /\ seqs'[s].route = currentRoute'
              /\ seqs'[s].invoked = GlobalThenRoute(seqs'[s].route)
              /\ seqs'[s].settled = Len(seqs'[s].invoked)
              /\ seqs'[s].titled]_vars

\* C18: what getCurrentRoute() returns is null or one of the Route objects
\* of options.routes, the object itself; and every sequence's target route
\* and every route in the pattern table is one of them too.
C18_CurrentRouteIsSuppliedRoute ==
    /\ GetCurrentRoute = NULL \/ GetCurrentRoute \in Range(Routes)
    /\ \A s \in SeqIds : seqs[s].route \in Range(Routes)
    /\ \A i \in 1..Len(patterns) : patterns[i].route \in Range(Routes)

\* The route matched through its named group is current, committed by a
\* sequence that was not the first.
C18_Witness ==
    /\ GetCurrentRoute = "user"
    /\ \E s \in SeqIds : s > 1 /\ seqs[s].route = "user" /\ Committed(seqs[s])

\* C19: the pattern table is empty until the first init() and from then on
\* holds one compiled pattern per route of options.routes, in declaration
\* order; the only step that changes it is the first init(), and no later
\* init(), navigate(), navigate event, popstate event or step of a sequence
\* changes it.
C19_PatternTableBuiltOnce ==
    /\ [](IF initialized
          THEN /\ Len(patterns) = Len(Routes)
               /\ \A i \in 1..Len(Routes) :
                     /\ patterns[i].route = Routes[i]
                     /\ patterns[i].pattern = CompilePattern(Route[Routes[i]].path)
          ELSE patterns = <<>>)
    /\ [][patterns' # patterns => (initCalls = 0 /\ patterns = <<>>)]_vars

\* After a second init() call and a navigate() call the table is that of
\* the first init().
C19_Witness ==
    /\ initCalls = 2
    /\ navCall.pc = "resolved"
    /\ Len(patterns) = 3
    /\ patterns[1].route = "home"
    /\ \E s \in SeqIds : s > 1 /\ seqs[s].pc = "done"

\* C20: once the Router listens, a popstate event starts a sequence, for
\* the first declared route matching the pathname the location then has,
\* exactly when there is such a route and its path differs from the current
\* route's path or no route is current; any other popstate event leaves the
\* sequences with their notifications, the current route and the title
\* alone.
C20_PopstateStartsIffOtherRoute ==
    [][lastNav'.kind = "popstate" =>
          LET route == FirstDeclared(lastNav'.pathname)
          IN  IF /\ initialized
                 /\ route # NULL
                 /\ (currentRoute = NULL \/ Route[route].path # Route[currentRoute].path)
              THEN /\ Len(seqs') = Len(seqs) + 1
                   /\ SubSeq(seqs', 1, Len(seqs)) = seqs
                   /\ seqs'[Len(seqs')].route = route
              ELSE /\ seqs' = seqs
                   /\ currentRoute' = currentRoute
                   /\ docTitle' = docTitle]_vars

\* A popstate event at a pathname of the current route has just been
\* delivered and nothing was started: the only sequence is the finished one
\* of init().
C20_Witness ==
    /\ lastNav.kind = "popstate"
    /\ currentRoute # NULL
    /\ FirstDeclared(lastNav.pathname) = currentRoute
    /\ Len(seqs) = 1
    /\ seqs[1].pc = "done"

\* The step takes the title step of sequence s.
TitleStep(s) ==
    /\ seqs'[s].titled
    /\ (s <= Len(seqs) => ~seqs[s].titled)

\* C21: a sequence takes its title step once, after all its hooks were
\* called and have settled and before any state commit of it; the title
\* step sets the document title to the target route's title, or leaves it
\* as it is when that title is empty; and the document title changes in no
\* other step.
C21_PluginsThenTitleThenCommit ==
    /\ [](\A s \in SeqIds :
            LET q == seqs[s]
            IN  /\ q.steps # <<>> =>
                      /\ q.steps[1] = "title"
                      /\ \A i \in 2..Len(q.steps) : q.steps[i] = "commit"
                      /\ q.invoked = GlobalThenRoute(q.route)
                      /\ q.settled = Len(q.invoked)
                /\ q.pc \in {"transition", "done"} => q.steps # <<>>)
    /\ [][\A s \in 1..Len(seqs') :
             TitleStep(s) =>
                 docTitle' = IF Route[seqs'[s].route].title # ""
                             THEN Route[seqs'[s].route].title
                             ELSE docTitle]_vars
    /\ [][docTitle' # docTitle => \E s \in 1..Len(seqs') : TitleStep(s)]_vars

\* A sequence for the route without a title has committed while the
\* document title is still the one an earlier sequence set.
C21_Witness ==
    \E s \in SeqIds :
        /\ seqs[s].route = "me"
        /\ seqs[s].steps = <<"title", "commit">>
        /\ seqs[s].failed # <<>>
        /\ docTitle = "Home"

\* C22: a sequence commits exactly once: it has dispatched no more than
\* one route-changed notification at any time, and exactly one when it has
\* finished.
C22_OneCommitPerSequence ==
    \A s \in SeqIds :
        /\ Len(RouteChangedOf(seqs[s])) <= 1
        /\ seqs[s].pc = "done" => Len(RouteChangedOf(seqs[s])) = 1

\* C23: once every sequence that was started has finished, the current
\* route is the target of the sequence started last.
C23_LastStartedWins ==
    (seqs # <<>> /\ \A s \in SeqIds : seqs[s].pc = "done")
        => currentRoute = seqs[Len(seqs)].route

\* C24: for a traversal whose navigate event the Router intercepted and
\* whose popstate event has been dispatched, the listeners have started
\* exactly one sequence.
C24_TraversalHandledOnce ==
    (traversal.pc = "delivered" /\ traversal.intercepted)
        => traversal.started = 1

\* C25: whenever no sequence is in flight and the current route has a
\* non-empty title, the document title is that title.
C25_TitleFollowsCurrentRoute ==
    (/\ \A s \in SeqIds : ~InFlight(seqs[s])
     /\ currentRoute # NULL
     /\ Route[currentRoute].title # "")
    => docTitle = Route[currentRoute].title

====
